---- MODULE Spec2Model ----
(***************************************************************************)
(* A model of cpptimer (includes/timer/timer.hpp): class timer::timer (one *)
(* scheduled action) and class timer::manager (the scheduler).             *)
(*                                                                         *)
(* Time is the reading of std::chrono::steady_clock, a natural number of   *)
(* clock units.  A tick pass (manager::update) is one step: under the lock  *)
(* it visits the stored timers in some order (one call of timer::update    *)
(* each, which reads the clock once and runs the catch-up loop and the     *)
(* callbacks it invokes) and then erases the ids collected in `remove`.    *)
(* The clock may advance between two visits of one pass.                   *)
(***************************************************************************)
EXTENDS Integers, Sequences, FiniteSets, TLC

\* ------------------------------------------------------------- bounds
MaxTime == 2
MaxReg == 2
MaxDur == 1
MaxCount == 2
MaxRemove == 1
\* The last whole second at which the example scenario makes a tick pass.
ScnEnd == 16
\* The identifier space: timer_id is unsigned long long (2^64 values); the
\* model keeps the arithmetic of ids++ modulo a smaller power.
IdMod == 8
MaxFired == 3
MaxIdReg == 10
MaxLive == 3
MaxStaleReg == 3
MaxDelay == 2
MaxRehash == 3
MaxLoopReg == 1

\* ---------------------------------------------------------- constants
IntMax == 2147483647
IntMin == (-IntMax) - 1

invalid_timer == IdMod - 1

Ids == 0 .. (IdMod - 1)
Durations == 0 .. MaxDur
Counts == -1 .. MaxCount
WideCounts == {2, IntMax}

\* The example program: interval every 5 s, timeout after 10 s, repeat 5
\* times every 3 s.
IntervalSeconds == 5
TimeoutSeconds == 10
RepeatSeconds == 3
RepeatTimes == 5

\* ----------------------------------------------------------- callbacks
\* A callback (std::function<void()>) is described by what it does when it
\* is invoked: nothing, cancel(arg) on the same manager, or timeout(nop, arg)
\* on the same manager.  "none" is the empty std::function.
NoHandler == [act |-> "none", arg |-> 0]
Nop == [act |-> "nop", arg |-> 0]
CancelHandler(i) == [act |-> "cancel", arg |-> i]
TimeoutHandler(d) == [act |-> "timeout", arg |-> d]
\* A callback that leaves by an exception.
Thrower == [act |-> "throw", arg |-> 0]

CancelTargets == {0}
CallbackDurations == {0}

Handlers ==
    {NoHandler, Nop}
        \cup {CancelHandler(i) : i \in CancelTargets}
        \cup {TimeoutHandler(d) : d \in CallbackDurations}

\* ------------------------------------------------------------ helpers
\* The hash map timers is a function on Ids; NoTimer is its value at the ids
\* for which find(id) == end().
NoTimer == [handler |-> NoHandler, next |-> -1, interval |-> 0, count |-> 0]
NoTimers == [i \in Ids |-> NoTimer]
Stored(tm) == {i \in Ids : tm[i] # NoTimer}

VARIABLES
    clock,          \* steady_clock::now()
    timers,         \* manager::timers : id -> timer
    ids,            \* manager::ids
    remove,         \* manager::remove
    pc,             \* "idle": no call is in progress; "hung": a tick pass is
                    \* in a catch-up loop that never ends; "deadlock": a
                    \* tick pass waits for the mutex that its thread owns;
                    \* "aborted": the process was terminated
    nreg,           \* the number of actions registered so far
    hist,           \* id -> the history of the action stored under id; it
                    \* is kept until the first step after the action's end
    call,           \* the operation performed by the last step
    mutex,          \* manager::mutex: the thread that owns it and how many
                    \* times it has locked it
    stopped,        \* manager::stopped
    worker,         \* manager::worker: whether it is joinable
    thr             \* thread -> where the thread is and its local variables

tvars == <<mutex, stopped, worker, thr>>
vars == <<clock, timers, ids, remove, pc, nreg, hist, call, tvars>>

\* The threads: one caller, the thread of manager::worker and the thread
\* that a call of start makes while the worker is joinable.
Threads == {"main", "loop", "second"}
Loops == {"loop", "second"}

\* std::recursive_mutex
Unlocked == [owner |-> "none", depth |-> 0]

\* A variant of lock() for a mutex that is not recursive (std::mutex): the
\* owner waits for itself.
lock_plain(m, t) ==
    IF m.owner = "none"
    THEN [m |-> [owner |-> t, depth |-> 1], ok |-> TRUE]
    ELSE [m |-> m, ok |-> FALSE]

\* A variant of lock() that excludes nobody.
lock_open(m, t) ==
    [m |-> [owner |-> t, depth |-> IF m.owner = t THEN m.depth + 1 ELSE 1],
     ok |-> TRUE]

\* std::recursive_mutex::lock by thread t: ok tells whether t gets the
\* mutex; if not, t waits.
lock_by(m, t) ==
    IF m.owner = "none"
    THEN [m |-> [owner |-> t, depth |-> 1], ok |-> TRUE]
    ELSE IF m.owner = t
    THEN [m |-> [m EXCEPT !.depth = @ + 1], ok |-> TRUE]
    ELSE [m |-> m, ok |-> FALSE]

\* std::recursive_mutex::unlock by its owner
unlock(m) ==
    IF m.depth > 1 THEN [m EXCEPT !.depth = @ - 1] ELSE Unlocked

\* The part of the state the manager's methods read and write; reg tells
\* whether a callback has registered an action that was due at once, exc
\* whether an exception is propagating out of a callback, dead whether the
\* thread waits for a mutex that it owns itself.  last is the latest reading
\* of the clock and ahead the readings that the next calls of clock::now()
\* made by a callback will return, in their order.
Mgr ==
    [timers |-> timers, ids |-> ids, remove |-> remove, nreg |-> nreg,
     hist |-> hist, mutex |-> mutex, reg |-> FALSE, exc |-> FALSE,
     dead |-> FALSE, last |-> clock, ahead |-> <<>>]

\* std::lock_guard<std::recursive_mutex> lock(this->mutex) in thread t, up
\* to the end of the scope: r is the state the guarded block makes of
\* s with the mutex locked.
Guarded(s, t, r) ==
    LET a == lock_by(s.mutex, t)
    IN  IF a.ok THEN r ELSE [s EXCEPT !.dead = TRUE]

\* The state with the mutex locked by t, for the guarded block that runs
\* as one step; ok as for lock_by.
Locked(s, t) ==
    LET a == lock_by(s.mutex, t)
    IN  [s |-> [s EXCEPT !.mutex = a.m], ok |-> a.ok]

InSeq(x, q) == \E i \in 1 .. Len(q) : q[i] = x
Min(a, b) == IF a <= b THEN a ELSE b
Max(a, b) == IF a >= b THEN a ELSE b

\* -------------------------------------------------------------- manager
\* manager::get_id
RECURSIVE get_id_loop(_, _)
get_id_loop(tm, n) ==
    LET id == n
        nxt == (n + 1) % IdMod
    IN  IF id = invalid_timer THEN get_id_loop(tm, nxt)
        ELSE IF tm[id] = NoTimer THEN [id |-> id, ids |-> nxt]
        ELSE get_id_loop(tm, nxt)

\* A variant of manager::get_id that skips invalid_timer only.
get_id_unchecked(s) ==
    IF s.ids = invalid_timer
    THEN [id |-> 0, ids |-> 1]
    ELSE [id |-> s.ids, ids |-> (s.ids + 1) % IdMod]

get_id(s) == get_id_loop(s.timers, s.ids)

\* timer::timer
NewTimer(handler, dur, count, now) ==
    [handler |-> handler, next |-> now + dur, interval |-> dur,
     count |-> count]

\* The history of an action starts: which call registered it (api, with the
\* count n given to repeat), whether its callback is non-empty (cb), the
\* clock reading of its constructor (t0), its period (dur), and whether a
\* cancel with its id was waiting in `remove` (canc).
NewHist(api, handler, dur, n, now, pending) ==
    [api |-> api, cb |-> handler.act # "none", t0 |-> now, dur |-> dur,
     n |-> n, st |-> "live", fired |-> 0, fin |-> FALSE,
     due |-> FALSE, last |-> -1, run |-> 0, late |-> FALSE,
     canc |-> pending, extc |-> FALSE, cbc |-> FALSE, again |-> FALSE]

NoHist == [NewHist("none", NoHandler, 0, 0, 0, FALSE) EXCEPT !.st = "none"]

\* The body shared by timeout, interval and repeat: get_id, new timer,
\* timers[id] = t, return id.
Register(s, api, handler, dur, n, count, now, inCb) ==
    LET g == get_id(s)
    IN  [s |-> [s EXCEPT
                    !.ids = g.ids,
                    !.timers[g.id] = NewTimer(handler, dur, count, now),
                    !.nreg = s.nreg + 1,
                    !.hist[g.id] = NewHist(api, handler, dur, n, now,
                                           InSeq(g.id, s.remove)),
                    !.reg = s.reg \/ (inCb /\ dur = 0)],
         ret |-> g.id]

\* manager::timeout
timeout(s, handler, dur, now, inCb) ==
    Register(s, "timeout", handler, dur, 0, -1, now, inCb)

\* A variant of manager::interval that stores the count of a timeout.
interval_as_timeout(s, handler, dur, now, inCb) ==
    Register(s, "interval", handler, dur, 0, -1, now, inCb)

\* manager::interval
interval(s, handler, dur, now, inCb) ==
    Register(s, "interval", handler, dur, 0, 0, now, inCb)

\* count + 1 on int; the sum of IntMax and 1 is a signed overflow.
Overflows(count) == count = IntMax
\* A variant that stores the count as it was given.
PlusOne_none(count) == count
PlusOne(count) == IF Overflows(count) THEN IntMin ELSE count + 1

\* A variant of manager::repeat that rejects only the negative counts.
repeat_accepts_zero(s, handler, dur, count, now, inCb) ==
    IF count < 0 THEN [s |-> s, ret |-> invalid_timer]
    ELSE IF count = 1 THEN
        LET r == timeout(s, handler, dur, now, inCb)
        IN  [s |-> [r.s EXCEPT !.hist[r.ret].api = "repeat",
                               !.hist[r.ret].n = 1],
             ret |-> r.ret]
    ELSE Register(s, "repeat", handler, dur, count, PlusOne(count), now, inCb)

\* manager::repeat
repeat(s, handler, dur, count, now, inCb) ==
    IF count <= 0 THEN [s |-> s, ret |-> invalid_timer]
    ELSE IF count = 1 THEN
        LET r == timeout(s, handler, dur, now, inCb)
        IN  [s |-> [r.s EXCEPT !.hist[r.ret].api = "repeat",
                               !.hist[r.ret].n = 1],
             ret |-> r.ret]
    ELSE Register(s, "repeat", handler, dur, count, PlusOne(count), now, inCb)

\* manager::cancel.  History: the action stored under id, if there is one,
\* has been cancelled (canc), by a callback of the running pass (cbc) or by
\* a caller, outside a pass, before it ever fired (extc).
cancel(s, id, inCb) ==
    IF id # invalid_timer
    THEN [s EXCEPT
            !.remove = Append(s.remove, id),
            !.hist[id] = IF s.timers[id] # NoTimer
                         THEN [@ EXCEPT
                                !.canc = TRUE,
                                !.cbc = @ \/ inCb,
                                !.extc = @ \/ (~inCb /\ s.hist[id].fired = 0)]
                         ELSE @]
    ELSE s

\* manager::clear
clear(s) ==
    [s EXCEPT !.ids = 0,
              !.timers = NoTimers,
              !.hist = [i \in Ids |->
                            IF s.timers[i] # NoTimer
                            THEN [s.hist[i] EXCEPT !.st = "cleared"]
                            ELSE s.hist[i]]]

\* ---------------------------------------------------------------- timer
\* The callback does not return: it has thrown or it waits for ever.
Gone(s) == s.exc \/ s.dead

\* clock::now() called by a callback: the next of the readings ahead; past
\* them the clock stands still.
Reading(s) == IF s.ahead = <<>> THEN s.last ELSE Head(s.ahead)

\* The state after that call.
Read(s) ==
    [s EXCEPT !.last = Reading(s),
              !.ahead = IF @ = <<>> THEN @ ELSE Tail(@)]

\* this->handler(): the callback runs, on the thread that holds the lock;
\* cancel and timeout lock the mutex again, in that thread.  The timer that
\* timeout constructs reads the clock itself, after timer::update has read
\* `now`.
Invoke(s, id, now) ==
    LET t == s.timers[id]
        s1 == [s EXCEPT !.hist[id].fired = @ + 1]
        me == s.mutex.owner
    IN  CASE t.handler.act = "cancel" ->
                Guarded(s1, me, cancel(s1, t.handler.arg, TRUE))
          [] t.handler.act = "timeout" ->
                Guarded(s1, me, timeout(Read(s1), Nop, t.handler.arg,
                                        Reading(s1), TRUE).s)
          [] t.handler.act = "throw" -> [s1 EXCEPT !.exc = TRUE]
          [] OTHER -> s1

\* A variant of timer::execute that schedules the next run one interval
\* after the clock reading.
execute_from_now(s, id, now) ==
    LET s1 == Invoke(s, id, now)
    IN  IF Gone(s1) THEN s1
        ELSE [s1 EXCEPT !.timers[id].next = now + s1.timers[id].interval]

\* timer::execute after this->handler(), which has made s1: an exception
\* of the handler leaves the function before next += interval.
Rescheduled(s1, id) ==
    IF Gone(s1) THEN s1
    ELSE [s1 EXCEPT !.timers[id].next = @ + s1.timers[id].interval]

\* timer::execute
execute(s, id, now) == Rescheduled(Invoke(s, id, now), id)

\* timer::update, the branch count == 0: while (next <= now) execute();
RECURSIVE catch_up_forever(_, _, _)
catch_up_forever(s, id, now) ==
    IF s.timers[id].next <= now /\ ~Gone(s)
    THEN catch_up_forever(execute(s, id, now), id, now)
    ELSE s

\* timer::update, the branch count > 1: while (next <= now) { execute();
\* count -= 1; if (count == 1) return true; }.  Counted is the loop's body
\* after execute(), which has made s1.
RECURSIVE catch_up_counted(_, _, _)
RECURSIVE Counted(_, _, _)
Counted(s1, id, now) ==
    LET s2 == [s1 EXCEPT !.timers[id].count = @ - 1]
    IN  IF Gone(s1) THEN [s |-> s1, ret |-> FALSE]
        ELSE IF s2.timers[id].count = 1
        THEN [s |-> s2, ret |-> TRUE]
        ELSE catch_up_counted(s2, id, now)

catch_up_counted(s, id, now) ==
    IF s.timers[id].next <= now
    THEN Counted(execute(s, id, now), id, now)
    ELSE [s |-> s, ret |-> FALSE]

\* timer::update, the branch count == 0 with interval 0, after the first
\* execute(), which has made s1: the loop has no end, unless the handler
\* has thrown.
Spins(s1) == [s |-> s1, ret |-> FALSE, hung |-> ~s1.exc]

\* timer::update, the branch count > 1: the call returns what the loop
\* returns.
Returns(r) == [s |-> r.s, ret |-> r.ret, hung |-> FALSE]

\* timer::update.  hung: the call does not return, because the loop of the
\* branch count == 0 has no end when interval is 0.  Where the handler has
\* thrown (s.exc) or waits for the mutex (s.dead), the call has no return
\* value: ret is not used.
timer_update(s, id, now) ==
    LET t == s.timers[id]
    IN  IF t.handler.act = "none" THEN [s |-> s, ret |-> TRUE, hung |-> FALSE]
        ELSE IF t.next <= now THEN
            IF t.count < 0
            THEN [s |-> execute(s, id, now), ret |-> TRUE, hung |-> FALSE]
            ELSE IF t.count = 0 THEN
                IF t.interval = 0
                THEN Spins(execute(s, id, now))
                ELSE [s |-> catch_up_forever(s, id, now), ret |-> FALSE,
                      hung |-> FALSE]
            ELSE IF t.count > 1 THEN
                Returns(catch_up_counted(s, id, now))
            ELSE [s |-> s, ret |-> TRUE, hung |-> FALSE]
        ELSE [s |-> s, ret |-> FALSE, hung |-> FALSE]

\* ------------------------------------------------------------- history
\* The clock reading from which all the firings of a one-shot (t0 + D) or
\* bounded (t0 + N * P) action are due.
HasDeadline(r) ==
    \/ r.api = "timeout"
    \/ r.api = "repeat" /\ (r.n # IntMax \/ r.dur = 0)
Deadline(r) ==
    r.t0 + (IF r.dur = 0 THEN 0 ELSE IF r.n >= 2 THEN r.n * r.dur ELSE r.dur)

\* One call of timer::update on the action has returned fin, having read
\* `now`.  For an interval: run is the number of consecutive calls, this one
\* included, each at least one period after the one before it; late tells
\* whether the first of them read a clock of at least t0 + P.
Ticked(r, now, fin) ==
    LET sep == r.last # -1 /\ now - r.last >= r.dur
    IN  IF r.api = "interval"
        THEN [r EXCEPT !.fin = fin,
                       !.again = r.again \/ r.fin,
                       !.last = now,
                       !.run = IF sep THEN r.run + 1 ELSE 1,
                       !.late = IF sep THEN r.late ELSE now >= r.t0 + r.dur]
        ELSE [r EXCEPT !.fin = fin,
                       !.again = r.again \/ r.fin,
                       !.due = r.due \/ (HasDeadline(r) /\ now >= Deadline(r))]

\* One more call of timer::update on the action in a pass that has called
\* it before has returned fin.
Reticked(r, fin) == [r EXCEPT !.fin = fin, !.again = r.again \/ r.fin]

\* A pass whose clock readings went from `first` to `last` has ended without
\* a call of timer::update on the action, which was stored when the pass
\* began.
Missed(r, first, last) ==
    LET sep == r.last # -1 /\ first - r.last >= r.dur
    IN  IF r.api = "interval"
        THEN [r EXCEPT !.last = last,
                       !.run = IF sep THEN r.run + 1 ELSE 1,
                       !.late = IF sep THEN r.late ELSE first >= r.t0 + r.dur]
        ELSE [r EXCEPT !.due = r.due \/ (HasDeadline(r) /\ first >= Deadline(r))]

\* The histories of the actions that ended are dropped.
Forget(hs, tm) == [i \in Ids |-> IF tm[i] # NoTimer THEN hs[i] ELSE NoHist]

\* ------------------------------------------------------------ tick pass
\* manager::update, the loop over the timers, as the set of its possible
\* runs.  A run p has the manager state p.s, the ids p.todo the iterator
\* has still to reach, the ids p.seen it has reached, the first clock
\* reading p.from of the pass (-1: none yet) and the last one p.now,
\* p.fired (a callback was invoked) and p.hung (a call of timer::update
\* does not return);
\* p.lim is the latest clock reading the pass can make and p.cap the
\* number of registrations up to which the run is followed, p.most the
\* number of invocations of one callback up to which it is followed.
\* The iteration order of the hash map is not specified.  An insertion
\* made by a callback while the loop runs may rehash the table under the
\* iterator: it++ then goes on from the visited timer in the new order, so
\* that any of the other stored timers, the visited ones and the inserted
\* ones included, is reached afterwards or not.
\* An exception of a callback (p.s.exc) ends the loop: it leaves
\* manager::update through timer::update, before remove.push_back.

\* The ids the iterator has still to reach after it++ at the timer id,
\* where the timers were `before` the visit and are `after` it.
Ahead(todo, id, before, after) ==
    IF Stored(after) = Stored(before)
    THEN {todo \ {id}}
    ELSE SUBSET (Stored(after) \ {id})

\* Visited: the runs after it->second->update() has returned r for the
\* timer id, having read the clock as now.
Visited(p, id, now, r) ==
    LET out == r.hung \/ Gone(r.s)
        s1 == [r.s EXCEPT
                    !.remove = IF r.ret /\ ~out THEN Append(@, id) ELSE @,
                    !.hist[id] = IF out THEN @
                                 ELSE IF id \in p.seen THEN Reticked(@, r.ret)
                                 ELSE Ticked(@, now, r.ret),
                    !.ahead = <<>>]
    IN  IF s1.nreg > p.cap \/ s1.hist[id].fired > p.most THEN {}
        ELSE {[s |-> s1, todo |-> todo, now |-> s1.last,
               seen |-> p.seen \cup {id},
               from |-> IF p.from = -1 THEN now ELSE p.from,
               lim |-> p.lim, cap |-> p.cap, most |-> p.most,
               fired |-> p.fired \/ s1.hist[id].fired > p.s.hist[id].fired,
               hung |-> r.hung \/ r.s.dead]
              : todo \in Ahead(p.todo, id, p.s.timers, s1.timers)}

\* The clock readings of k calls of clock::now() made one after the other,
\* none before lo and none after hi.
Readings(lo, hi, k) ==
    {q \in [1 .. k -> lo .. hi] : \A i \in 1 .. k - 1 : q[i] <= q[i + 1]}

\* The number of registrations up to which the visit of the timer id is
\* followed: a callback that registers reads the clock once for each.
Reads(p, id, now) ==
    IF p.s.timers[id].handler.act = "timeout" /\ p.s.timers[id].next <= now
    THEN Max(p.cap - p.s.nreg, 0)
    ELSE 0

\* One turn of the loop: auto now = clock::now(); if
\* (it->second->update()) remove.push_back(it->first); it++;
Turn(p, id, now) ==
    UNION {Visited(p, id, now,
                   timer_update([p.s EXCEPT !.last = now, !.ahead = q],
                                id, now))
           : q \in Readings(now, p.lim, Reads(p, id, now))}

VisitRuns(p, id) == UNION {Turn(p, id, now) : now \in p.now .. p.lim}

\* The run of a pass that begins: manager state s, clock reading now.
Begun(s, now, lim, cap, most) ==
    [s |-> s, todo |-> Stored(s.timers), now |-> now, seen |-> {},
     from |-> -1, lim |-> lim, cap |-> cap, most |-> most, fired |-> FALSE,
     hung |-> FALSE]

RECURSIVE PassRuns(_)
PassRuns(p) ==
    IF p.hung \/ p.s.exc \/ p.todo = {} THEN {p}
    ELSE UNION {PassRuns(q) : q \in UNION {VisitRuns(p, id) : id \in p.todo}}

\* The manager after the loop of the run p, which began with the timers
\* `before`: the histories of the timers the loop has not reached record
\* the pass.
Passed(p, before) ==
    [p.s EXCEPT !.hist = [i \in Ids |->
                            IF i \in Stored(before) \ p.seen
                            THEN Missed(p.s.hist[i], p.from, p.now)
                            ELSE p.s.hist[i]]]

\* manager::update, after the loop: the ids in `remove` are erased.
RECURSIVE EraseAll(_, _)
EraseAll(tm, rs) ==
    IF rs = <<>> THEN tm
    ELSE EraseAll([tm EXCEPT ![Head(rs)] = NoTimer], Tail(rs))

Reap(s) ==
    LET tm == EraseAll(s.timers, s.remove)
    IN  [s EXCEPT
            !.timers = tm,
            !.remove = <<>>,
            !.hist = [i \in Ids |->
                        IF tm[i] = NoTimer /\ s.timers[i] # NoTimer
                        THEN [s.hist[i] EXCEPT !.st = "reaped"]
                        ELSE s.hist[i]]]

\* --------------------------------------------------------------- actions
\* call describes the last step: the operation, the id it was given or
\* returned, the count given to repeat; and for a tick pass: streak, the
\* number (up to 2) of passes made in a row with the clock unchanged and no
\* other operation in between; fired, a callback was invoked; reg, a
\* callback registered an action that was due at once; regPrev, reg of the
\* pass before.
NoCall ==
    [op |-> "init", id |-> invalid_timer, n |-> 0, streak |-> 0,
     fired |-> FALSE, reg |-> FALSE, regPrev |-> FALSE, threw |-> FALSE,
     gap |-> -1, e |-> -1, by |-> "main"]

\* A thread that is not in a call of the manager.
Idle ==
    [at |-> "out", todo |-> {}, delay |-> 0, start |-> 0, e |-> -1,
     wake |-> 0, quiet |-> FALSE]

\* The state after manager::manager.  The constructor does not initialise
\* `stopped`; only update_loop reads it, after start has set it to false.
Init ==
    /\ clock = 0
    /\ timers = NoTimers
    /\ ids = 0
    /\ remove = <<>>
    /\ pc = "idle"
    /\ nreg = 0
    /\ hist = [i \in Ids |-> NoHist]
    /\ call = NoCall
    /\ mutex = Unlocked
    /\ stopped = FALSE
    /\ worker = "none"
    /\ thr = [t \in Threads |-> Idle]

\* The manager's part of the state becomes s.
Becomes(s) ==
    /\ timers' = s.timers
    /\ ids' = s.ids
    /\ remove' = s.remove
    /\ nreg' = s.nreg
    /\ hist' = s.hist

\* The manager as an operation finds it.
Settled == [Mgr EXCEPT !.hist = Forget(hist, timers)]

\* A caller's thread calls timeout(handler, dur), with a handler of hs.
TimeoutCall(hs) ==
    /\ pc = "idle"
    /\ nreg < MaxReg
    /\ \E handler \in hs, dur \in Durations :
        LET r == timeout(Settled, handler, dur, clock, FALSE)
        IN  /\ Becomes(r.s)
            /\ call' = [NoCall EXCEPT !.op = "timeout", !.id = r.ret]
    /\ UNCHANGED <<clock, pc, tvars>>

ExtTimeout == TimeoutCall(Handlers)

\* A caller's thread calls interval(handler, dur), with a handler of hs.
IntervalCall(hs) ==
    /\ pc = "idle"
    /\ nreg < MaxReg
    /\ \E handler \in hs, dur \in Durations :
        LET r == interval(Settled, handler, dur, clock, FALSE)
        IN  /\ Becomes(r.s)
            /\ call' = [NoCall EXCEPT !.op = "interval", !.id = r.ret]
    /\ UNCHANGED <<clock, pc, tvars>>

ExtInterval == IntervalCall(Handlers)

\* A caller's thread calls repeat(handler, dur, count).  Where count + 1
\* overflows, the behaviour is undefined: the sum wraps, or the call traps
\* and the process ends.
RepeatCall(hs, counts) ==
    /\ pc = "idle"
    /\ \E handler \in hs, dur \in Durations, count \in counts :
        /\ count <= 0 \/ nreg < MaxReg
        /\ LET r == repeat(Settled, handler, dur, count, clock, FALSE)
           IN  /\ Becomes(r.s)
               /\ call' = [NoCall EXCEPT !.op = "repeat", !.id = r.ret,
                                         !.n = count]
        /\ pc' \in (IF Overflows(count) THEN {"idle", "aborted"} ELSE {"idle"})
    /\ UNCHANGED <<clock, tvars>>

ExtRepeat == RepeatCall(Handlers, Counts)

\* A caller's thread calls cancel(id).
ExtCancel ==
    /\ pc = "idle"
    /\ Len(remove) < MaxRemove
    /\ \E id \in (CancelTargets \cup {invalid_timer}) :
        /\ Becomes(cancel(Settled, id, FALSE))
        /\ call' = [NoCall EXCEPT !.op = "cancel", !.id = id]
    /\ UNCHANGED <<clock, pc, tvars>>

\* A caller's thread calls clear().
ExtClear ==
    /\ pc = "idle"
    /\ Becomes(clear(Settled))
    /\ call' = [NoCall EXCEPT !.op = "clear"]
    /\ UNCHANGED <<clock, pc, tvars>>

\* manager::update: one tick pass, followed as long as no more than cap
\* actions have been registered.  Where a callback throws, the exception
\* leaves update before the ids in `remove` are erased (threw), and the
\* caller catches it.
Pass(cap) ==
    /\ pc = "idle"
    /\ \E p \in PassRuns(Begun(Locked(Settled, "main").s, clock, MaxTime,
                                cap, MaxFired)) :
        /\ Becomes(IF p.hung \/ p.s.exc THEN p.s
                   ELSE Reap(Passed(p, timers)))
        /\ clock' = p.now
        /\ pc' = IF p.s.dead THEN "deadlock"
                 ELSE IF p.hung THEN "hung" ELSE "idle"
        /\ call' = [NoCall EXCEPT
                        !.op = "update",
                        !.streak = IF p.now # clock \/ p.hung THEN 0
                                   ELSE Min(call.streak + 1, 2),
                        !.fired = p.fired,
                        !.reg = p.s.reg,
                        !.regPrev = call.reg,
                        !.threw = p.s.exc]
    /\ UNCHANGED tvars

\* Passes in which the callbacks register up to MaxReg actions in all.
Update == Pass(MaxReg)

\* Time passes.
Advance ==
    /\ pc = "idle"
    /\ clock < MaxTime
    /\ clock' = clock + 1
    /\ hist' = Forget(hist, timers)
    /\ call' = [NoCall EXCEPT !.op = "advance"]
    /\ UNCHANGED <<timers, ids, remove, pc, nreg, tvars>>

Next ==
    \/ ExtTimeout
    \/ ExtInterval
    \/ ExtRepeat
    \/ ExtCancel
    \/ ExtClear
    \/ Update
    \/ Advance

Spec == Init /\ [][Next]_vars

\* ------------------------------------------- repeat with large counts
ExtRepeatWide == RepeatCall(Handlers, WideCounts)

NextWide ==
    \/ ExtRepeatWide
    \/ ExtCancel
    \/ Update
    \/ Advance

SpecWide == Init /\ [][NextWide]_vars

\* ------------------------------------------- callbacks that throw
\* The callbacks do nothing, call cancel or throw; the caller of update
\* catches the exception and goes on.
ThrowHandlers == {Nop, Thrower} \cup {CancelHandler(i) : i \in CancelTargets}

ThrowTimeout == TimeoutCall(ThrowHandlers)
ThrowInterval == IntervalCall(ThrowHandlers)
ThrowRepeat == RepeatCall(ThrowHandlers, Counts)

NextThrow ==
    \/ ThrowTimeout
    \/ ThrowInterval
    \/ ThrowRepeat
    \/ ExtCancel
    \/ Update
    \/ Advance

SpecThrow == Init /\ [][NextThrow]_vars

\* ------------------------------------------- callbacks that register
\* Up to MaxRehash actions are registered, by the caller or by a callback:
\* the callbacks do nothing or call timeout(nop, 1), whose action is not due
\* at once.  An insertion made during a pass can then find other timers
\* stored, on either side of the iterator.
RehashHandlers == {Nop, TimeoutHandler(1)}

RehashTimeout ==
    /\ pc = "idle"
    /\ nreg < MaxRehash
    /\ \E handler \in RehashHandlers, dur \in Durations :
        LET r == timeout(Settled, handler, dur, clock, FALSE)
        IN  /\ Becomes(r.s)
            /\ call' = [NoCall EXCEPT !.op = "timeout", !.id = r.ret]
    /\ UNCHANGED <<clock, pc, tvars>>

RehashInterval ==
    /\ pc = "idle"
    /\ nreg < MaxRehash
    /\ LET r == interval(Settled, Nop, 1, clock, FALSE)
       IN  /\ Becomes(r.s)
           /\ call' = [NoCall EXCEPT !.op = "interval", !.id = r.ret]
    /\ UNCHANGED <<clock, pc, tvars>>

RehashRepeat ==
    /\ pc = "idle"
    /\ nreg < MaxRehash
    /\ \E dur \in Durations :
        LET r == repeat(Settled, Nop, dur, 1, clock, FALSE)
        IN  /\ Becomes(r.s)
            /\ call' = [NoCall EXCEPT !.op = "repeat", !.id = r.ret,
                                      !.n = 1]
    /\ UNCHANGED <<clock, pc, tvars>>

RehashUpdate == Pass(MaxRehash)

NextRehash ==
    \/ RehashTimeout
    \/ RehashInterval
    \/ RehashRepeat
    \/ RehashUpdate
    \/ Advance

SpecRehash == Init /\ [][NextRehash]_vars

\* ------------------------------------------- the worker thread
\* The caller's thread "main", the worker's thread "loop" and the thread
\* "second", which a call of start makes while the worker is joinable, take
\* turns step by step.  A call of timeout, interval, cancel or update is
\* two or more steps: the lock_guard gets the mutex (Enter), then the body
\* runs, for update one step for each timer the loop reaches (Visit), and
\* the last step unlocks.  thr[t].at tells where t is: "out" (in no call;
\* for "loop" and "second": no thread), "timeout", "interval", "cancel",
\* "pass", "join" (main, in worker.join()), "assign" (main, in start,
\* before the assignment to worker), "top" (at while (!stopped)), "want"
\* (calling update), "measure" (update has returned), "sleep", "done"
\* (update_loop has returned).  thr["main"].quiet: stop has returned and
\* start has not been called since.  Up to MaxLoopReg actions are
\* registered.
Delays == 1 .. MaxDelay
LoopHandlers == {Nop} \cup {CancelHandler(i) : i \in CancelTargets}
Sections == {"timeout", "interval", "cancel", "pass"}
InSection(t) == thr[t].at \in Sections

\* A variant of the end of join() that does not wait for the thread.
joined_at_once(w) == TRUE

\* std::thread::join returns when the thread of execution has finished.
joined(w) == w.at = "done"

\* A variant of update_loop that computes no time to sleep.
diff_none(delay, end) == 0

\* update_loop: auto diff = delay - end
diff(delay, end) == delay - end

\* The step of thread t has the effect s on the manager and leaves t at
\* `at`, unlocking the mutex if it leaves the call.
Does(t, s, at, op) ==
    /\ Becomes(s)
    /\ mutex' = IF at \in Sections THEN mutex ELSE unlock(mutex)
    /\ thr' = [thr EXCEPT ![t].at = at]
    /\ call' = [NoCall EXCEPT !.op = op]
    /\ UNCHANGED <<clock, pc, stopped, worker>>

\* std::lock_guard<std::recursive_mutex> lock(this->mutex) at the start of
\* timeout, interval, cancel and update: t gets the mutex, or waits.
Enter(t, what) ==
    /\ pc = "idle"
    /\ thr[t].at = (IF t \in Loops THEN "want" ELSE "out")
    /\ t \in Loops => what = "pass"
    /\ what \in {"timeout", "interval"} => nreg < MaxLoopReg
    /\ what = "cancel" => Len(remove) < MaxRemove
    /\ LET a == lock_by(mutex, t)
       IN  /\ a.ok
           /\ mutex' = a.m
    /\ thr' = [thr EXCEPT ![t].at = what,
                           ![t].todo = IF what = "pass" THEN Stored(timers)
                                       ELSE {}]
    /\ hist' = Forget(hist, timers)
    /\ call' = [NoCall EXCEPT !.op = "lock"]
    /\ UNCHANGED <<clock, timers, ids, remove, pc, nreg, stopped, worker>>

MainEnter == \E what \in Sections : Enter("main", what)
LoopEnter == Enter("loop", "pass")
SecondEnter == Enter("second", "pass")

\* The body of timeout(handler, dur), in the caller's thread.
MainTimeout ==
    /\ pc = "idle"
    /\ thr["main"].at = "timeout"
    /\ \E handler \in LoopHandlers, dur \in Durations :
        Does("main", timeout(Mgr, handler, dur, clock, FALSE).s, "out",
             "timeout")

\* The body of interval(handler, dur), in the caller's thread; dur > 0.
MainInterval ==
    /\ pc = "idle"
    /\ thr["main"].at = "interval"
    /\ \E handler \in LoopHandlers, dur \in Durations \ {0} :
        Does("main", interval(Mgr, handler, dur, clock, FALSE).s, "out",
             "interval")

\* The body of cancel(id), in the caller's thread.
MainCancel ==
    /\ pc = "idle"
    /\ thr["main"].at = "cancel"
    /\ \E id \in CancelTargets :
        Does("main", cancel(Mgr, id, FALSE), "out", "cancel")

\* manager::update in thread t, one turn of the loop over the timers.
Visit(t) ==
    /\ pc = "idle"
    /\ thr[t].at = "pass"
    /\ \E id \in thr[t].todo :
        \E q \in VisitRuns([Begun(Mgr, clock, clock, nreg, MaxFired)
                                EXCEPT !.todo = thr[t].todo], id) :
            /\ Becomes(q.s)
            /\ thr' = [thr EXCEPT ![t].todo = q.todo]
            /\ call' = [NoCall EXCEPT !.op = "visit", !.id = id,
                                      !.fired = q.fired]
    /\ UNCHANGED <<clock, pc, mutex, stopped, worker>>

MainVisit == Visit("main")
LoopVisit == Visit("loop")
SecondVisit == Visit("second")

\* manager::update in thread t, after the loop over the timers: the ids in
\* `remove` are erased and the mutex is unlocked.
Leave(t) ==
    /\ pc = "idle"
    /\ thr[t].at = "pass"
    /\ thr[t].todo = {}
    /\ Does(t, Reap(Mgr), IF t \in Loops THEN "measure" ELSE "out", "update")

MainLeave == Leave("main")
LoopLeave == Leave("loop")
SecondLeave == Leave("second")

\* manager::start(dur), in the caller's thread: stopped = false, and the
\* std::thread is constructed, whose thread starts to run update_loop.
\* Where the worker is not joinable, the move assignment makes it the
\* worker; where it is joinable, the assignment is still to come
\* ("assign").  thr["main"].quiet: see MainJoin.
MainStart ==
    /\ pc = "idle"
    /\ thr["main"].at = "out"
    /\ stopped' = FALSE
    /\ \E dur \in Delays :
        IF worker = "joinable"
        THEN thr' = [thr EXCEPT
                        !["main"].at = "assign",
                        !["second"] = [Idle EXCEPT !.at = "top",
                                                   !.delay = dur]]
        ELSE thr' = [thr EXCEPT
                        !["main"].quiet = FALSE,
                        !["loop"] = [Idle EXCEPT !.at = "top",
                                                 !.delay = dur]]
    /\ worker' = "joinable"
    /\ call' = [NoCall EXCEPT !.op = "start"]
    /\ UNCHANGED <<clock, timers, ids, remove, pc, nreg, hist, mutex>>

\* manager::start: the move assignment to a worker that is joinable calls
\* std::terminate, which ends the process and its threads.
MainAssign ==
    /\ pc = "idle"
    /\ thr["main"].at = "assign"
    /\ pc' = "aborted"
    /\ call' = [NoCall EXCEPT !.op = "terminate"]
    /\ UNCHANGED <<clock, timers, ids, remove, nreg, hist, tvars>>

\* manager::stop, in the caller's thread, up to worker.join(); where the
\* worker is not joinable, the whole call.
MainStop ==
    /\ pc = "idle"
    /\ thr["main"].at = "out"
    /\ stopped' = TRUE
    /\ thr' = IF worker = "joinable"
              THEN [thr EXCEPT !["main"].at = "join"]
              ELSE [thr EXCEPT !["main"].quiet = TRUE]
    /\ call' = [NoCall EXCEPT !.op = "stop"]
    /\ UNCHANGED <<clock, timers, ids, remove, pc, nreg, hist, mutex, worker>>

\* manager::stop: worker.join() returns, and stop returns.
MainJoin ==
    /\ pc = "idle"
    /\ thr["main"].at = "join"
    /\ joined(thr["loop"])
    /\ worker' = "none"
    /\ thr' = [thr EXCEPT
                    !["main"].at = "out",
                    !["main"].quiet = TRUE,
                    !["loop"].at = IF @ = "done" THEN "out" ELSE @]
    /\ call' = [NoCall EXCEPT !.op = "join"]
    /\ UNCHANGED <<clock, timers, ids, remove, pc, nreg, hist, mutex, stopped>>

\* update_loop: while (!this->stopped) { auto start = clock::now(); ...
\* `stopped` is a plain bool that stop writes in another thread: the read
\* races with the write, and may not see it.  call.gap is the time since
\* the start of the pass before, whose measured duration is call.e.
Test(t) ==
    /\ pc = "idle"
    /\ thr[t].at = "top"
    /\ \E seen \in (IF stopped THEN {TRUE, FALSE} ELSE {FALSE}) :
        IF seen
        THEN /\ thr' = [thr EXCEPT ![t].at = "done"]
             /\ call' = [NoCall EXCEPT !.op = "exit"]
        ELSE /\ thr' = [thr EXCEPT ![t].at = "want",
                                   ![t].start = clock]
             /\ call' = [NoCall EXCEPT
                            !.op = "loopstart", !.by = t,
                            !.e = thr[t].e,
                            !.gap = IF thr[t].e >= 0
                                    THEN clock - thr[t].start ELSE -1]
    /\ UNCHANGED <<clock, timers, ids, remove, pc, nreg, hist, mutex,
                   stopped, worker>>

LoopTest == Test("loop")
SecondTest == Test("second")

\* update_loop: auto end = clock::now() - start; auto diff = delay - end;
\* if (diff > zero) sleep_for(diff), which blocks for at least diff.
Measure(t) ==
    /\ pc = "idle"
    /\ thr[t].at = "measure"
    /\ LET end == clock - thr[t].start
           d == diff(thr[t].delay, end)
       IN  /\ thr' = [thr EXCEPT
                        ![t].e = end,
                        ![t].at = IF d > 0 THEN "sleep" ELSE "top",
                        ![t].wake = IF d > 0 THEN clock + d ELSE clock]
           /\ call' = [NoCall EXCEPT !.op = "measure", !.by = t, !.e = end]
    /\ UNCHANGED <<clock, timers, ids, remove, pc, nreg, hist, mutex,
                   stopped, worker>>

LoopMeasure == Measure("loop")
SecondMeasure == Measure("second")

\* update_loop: sleep_for returns.
Wake(t) ==
    /\ pc = "idle"
    /\ thr[t].at = "sleep"
    /\ clock >= thr[t].wake
    /\ thr' = [thr EXCEPT ![t].at = "top"]
    /\ call' = [NoCall EXCEPT !.op = "wake"]
    /\ UNCHANGED <<clock, timers, ids, remove, pc, nreg, hist, mutex,
                   stopped, worker>>

LoopWake == Wake("loop")
SecondWake == Wake("second")

\* The state after manager::manager, with either value of the
\* uninitialised `stopped`.
InitLoop ==
    /\ clock = 0
    /\ timers = NoTimers
    /\ ids = 0
    /\ remove = <<>>
    /\ pc = "idle"
    /\ nreg = 0
    /\ hist = [i \in Ids |-> NoHist]
    /\ call = NoCall
    /\ mutex = Unlocked
    /\ stopped \in BOOLEAN
    /\ worker = "none"
    /\ thr = [t \in Threads |-> Idle]

NextLoop ==
    \/ MainEnter
    \/ MainTimeout
    \/ MainInterval
    \/ MainCancel
    \/ MainVisit
    \/ MainLeave
    \/ MainStart
    \/ MainAssign
    \/ MainStop
    \/ MainJoin
    \/ LoopTest
    \/ LoopEnter
    \/ LoopVisit
    \/ LoopLeave
    \/ LoopMeasure
    \/ LoopWake
    \/ SecondTest
    \/ SecondEnter
    \/ SecondVisit
    \/ SecondLeave
    \/ SecondMeasure
    \/ SecondWake
    \/ Advance

SpecLoop == InitLoop /\ [][NextLoop]_vars

\* ------------------------------------------- a long-lived manager
\* Up to MaxIdReg actions are registered, so that the counter `ids` passes
\* invalid_timer and starts again at 0: one-shots that are due at once and
\* intervals of period 1, which stay; the clock stands still.  At most
\* MaxLive actions are stored at a time.
IdTimeout ==
    /\ pc = "idle"
    /\ nreg < MaxIdReg
    /\ Cardinality(Stored(timers)) < MaxLive
    /\ LET r == timeout(Settled, Nop, 0, clock, FALSE)
       IN  /\ Becomes(r.s)
           /\ call' = [NoCall EXCEPT !.op = "timeout", !.id = r.ret]
    /\ UNCHANGED <<clock, pc, tvars>>

IdInterval ==
    /\ pc = "idle"
    /\ nreg < MaxIdReg
    /\ Cardinality(Stored(timers)) < MaxLive
    /\ LET r == interval(Settled, Nop, 1, clock, FALSE)
       IN  /\ Becomes(r.s)
           /\ call' = [NoCall EXCEPT !.op = "interval", !.id = r.ret]
    /\ UNCHANGED <<clock, pc, tvars>>

IdCancel ==
    /\ pc = "idle"
    /\ Len(remove) < MaxRemove
    /\ \E id \in Stored(timers) :
        /\ Becomes(cancel(Settled, id, FALSE))
        /\ call' = [NoCall EXCEPT !.op = "cancel", !.id = id]
    /\ UNCHANGED <<clock, pc, tvars>>

IdUpdate ==
    /\ pc = "idle"
    /\ \E p \in PassRuns(Begun(Locked(Settled, "main").s, clock, clock,
                                nreg, MaxFired)) :
        /\ Becomes(Reap(p.s))
        /\ call' = [NoCall EXCEPT !.op = "update", !.fired = p.fired]
    /\ UNCHANGED <<clock, pc, tvars>>

NextIds ==
    \/ IdTimeout
    \/ IdInterval
    \/ IdCancel
    \/ IdUpdate

SpecIds == Init /\ [][NextIds]_vars

\* ------------------------------------------- cancel of a finished action
\* The only calls of cancel are given the id of an action that has fired,
\* has finished and has been erased by the pass.  The histories are kept
\* until the id is given to a new action; the clock stands still.
FiredAndReaped(i) ==
    /\ timers[i] = NoTimer
    /\ hist[i].st = "reaped" /\ hist[i].fin /\ hist[i].fired >= 1

StaleTimeout ==
    /\ pc = "idle"
    /\ nreg < MaxStaleReg
    /\ \E dur \in Durations :
        LET r == timeout(Mgr, Nop, dur, clock, FALSE)
        IN  /\ Becomes(r.s)
            /\ call' = [NoCall EXCEPT !.op = "timeout", !.id = r.ret]
    /\ UNCHANGED <<clock, pc, tvars>>

StaleInterval ==
    /\ pc = "idle"
    /\ nreg < MaxStaleReg
    /\ LET r == interval(Mgr, Nop, 1, clock, FALSE)
       IN  /\ Becomes(r.s)
           /\ call' = [NoCall EXCEPT !.op = "interval", !.id = r.ret]
    /\ UNCHANGED <<clock, pc, tvars>>

StaleCancel ==
    /\ pc = "idle"
    /\ Len(remove) < MaxRemove
    /\ \E id \in Ids :
        /\ FiredAndReaped(id)
        /\ Becomes(cancel(Mgr, id, FALSE))
        /\ call' = [NoCall EXCEPT !.op = "cancel", !.id = id]
    /\ UNCHANGED <<clock, pc, tvars>>

StaleClear ==
    /\ pc = "idle"
    /\ Becomes(clear(Mgr))
    /\ call' = [NoCall EXCEPT !.op = "clear"]
    /\ UNCHANGED <<clock, pc, tvars>>

StaleUpdate ==
    /\ pc = "idle"
    /\ \E p \in PassRuns(Begun(Locked(Mgr, "main").s, clock, clock, nreg,
                                MaxFired)) :
        /\ Becomes(Reap(p.s))
        /\ call' = [NoCall EXCEPT !.op = "update", !.fired = p.fired]
    /\ UNCHANGED <<clock, pc, tvars>>

NextStale ==
    \/ StaleTimeout
    \/ StaleInterval
    \/ StaleCancel
    \/ StaleClear
    \/ StaleUpdate

SpecStale == Init /\ [][NextStale]_vars

\* ------------------------------------------------ the example scenario
\* main (the example program) registers an interval of 5 s, a timeout of
\* 10 s and a repeat of 5 times 3 s; the three calls are made at clock 0, in
\* any order.  Then one tick pass is made at every whole second up to
\* ScnEnd.  The histories are kept to the end of the scenario.
Registered(api) == \E i \in Ids : hist[i].api = api

ScnCall(api, n, r) ==
    /\ pc = "idle"
    /\ clock = 0
    /\ call.op # "update"
    /\ ~Registered(api)
    /\ Becomes(r.s)
    /\ call' = [NoCall EXCEPT !.op = api, !.id = r.ret, !.n = n]
    /\ UNCHANGED <<clock, pc, tvars>>

ScnInterval ==
    ScnCall("interval", 0, interval(Mgr, Nop, IntervalSeconds, clock, FALSE))

ScnTimeout ==
    ScnCall("timeout", 0, timeout(Mgr, Nop, TimeoutSeconds, clock, FALSE))

ScnRepeat ==
    ScnCall("repeat", RepeatTimes,
            repeat(Mgr, Nop, RepeatSeconds, RepeatTimes, clock, FALSE))

ScnTick ==
    /\ pc = "idle"
    /\ nreg = 3
    /\ clock <= ScnEnd
    /\ \E p \in PassRuns(Begun(Locked(Mgr, "main").s, clock, clock, nreg,
                                RepeatTimes)) :
        /\ Becomes(Reap(p.s))
        /\ call' = [NoCall EXCEPT !.op = "update", !.fired = p.fired]
    /\ clock' = clock + 1
    /\ UNCHANGED <<pc, tvars>>

NextScenario ==
    \/ ScnInterval
    \/ ScnTimeout
    \/ ScnRepeat
    \/ ScnTick

SpecScenario == Init /\ [][NextScenario]_vars

\* ---------------------------------------------------------------- claims
\* The history of i belongs to an action that was registered.
Known(i) == hist[i].st # "none"

\* The action was not cancelled and the manager was not cleared.
Kept(i) == Known(i) /\ hist[i].st # "cleared" /\ ~hist[i].canc

\* The record of an action that fires once: the callback was invoked at
\* most once; it was invoked once exactly if a call of timer::update on the
\* action has read a clock at or after its deadline; and when the pass that
\* made that call has ended, the action is no longer stored.
OneShotDone(i) ==
    /\ hist[i].fired <= 1
    /\ hist[i].fired = 1 <=> hist[i].due
    /\ (pc = "idle" /\ hist[i].due)
            => (hist[i].st = "reaped" /\ timers[i] = NoTimer)

\* C1, as stated: every action registered by timeout(cb, D) at t0 and not
\* cancelled is invoked at most once over any sequence of tick passes, is
\* invoked exactly once in the first pass that reads a clock >= t0 + D, and
\* is absent from timers at the end of that pass.  (Violated where the
\* callback of another action registers an action during the pass: the
\* loop may reach the timer twice, or not at all.  Also violated by an
\* empty callback, which is never invoked.)
C1_AsStated ==
    \A i \in Ids : (Kept(i) /\ hist[i].api = "timeout") => OneShotDone(i)

\* C2, as stated (for non-empty callbacks): every action registered by
\* repeat(cb, P, N) with N >= 2 at t0 and not cancelled is invoked at most N
\* times; once a pass has read a clock >= t0 + N * P it has been invoked
\* exactly N times and has been removed.
C2_AsStated ==
    \A i \in Ids :
        (Kept(i) /\ hist[i].api = "repeat" /\ hist[i].n >= 2 /\ hist[i].cb) =>
            /\ hist[i].fired <= hist[i].n
            /\ hist[i].due =>
                    /\ hist[i].fired = hist[i].n
                    /\ pc = "idle" =>
                            (hist[i].st = "reaped" /\ timers[i] = NoTimer)

\* C3, as stated: an action cancelled by a callback during a tick pass is
\* no longer stored when that pass has ended, so that no later pass invokes
\* its callback (a pass invokes the callbacks of stored timers only).
C3_AsStated ==
    \A i \in Ids :
        (pc = "idle" /\ hist[i].cbc) =>
            (hist[i].st = "reaped" /\ timers[i] = NoTimer)

\* C4, as stated: once cancel(id) has returned for a stored action that has
\* not fired yet, the call being made outside a tick pass, the callback of
\* the action is never invoked.
C4_AsStated ==
    \A i \in Ids : hist[i].extc => hist[i].fired = 0

\* C5, as stated: after K >= 1 consecutive tick passes, each at least P
\* after the one before, an action registered by interval(cb, P) has been
\* invoked at least K times.
C5_AsStated ==
    \A i \in Ids :
        (Kept(i) /\ hist[i].api = "interval" /\ hist[i].cb) =>
            hist[i].fired >= hist[i].run

\* C5, weakened (a pass made less than P after the registration invokes
\* nothing): after K >= 1 such passes an action registered at t0 by
\* interval(cb, P) with a non-empty callback has been invoked at least
\* K - 1 times, and at least K times if the first of the K passes read a
\* clock >= t0 + P.  It holds as long as no callback registers an action
\* during a pass while a third timer is stored.
C5_IntervalKeepsUp ==
    \A i \in Ids :
        (Kept(i) /\ hist[i].api = "interval" /\ hist[i].cb) =>
            /\ hist[i].fired >= hist[i].run - 1
            /\ hist[i].late => hist[i].fired >= hist[i].run

\* C6: an action registered by interval with a non-empty callback, whose id
\* was never given to cancel and whose manager was not cleared, is stored
\* and no call of timer::update on it has returned true.
C6_IntervalNeverCompletes ==
    \A i \in Ids :
        (Kept(i) /\ hist[i].api = "interval" /\ hist[i].cb) =>
            /\ hist[i].st = "live"
            /\ timers[i] # NoTimer
            /\ ~hist[i].fin

C6_Witness ==
    \E i \in Ids :
        /\ Kept(i) /\ hist[i].api = "interval" /\ hist[i].cb
        /\ hist[i].fired >= 2 /\ hist[i].st = "live" /\ timers[i] # NoTimer

\* C7: repeat(cb, P, count) with count <= 0 returns invalid_timer and
\* leaves timers, ids and remove as they were; no action is registered, so
\* that no pass can invoke cb.
C7_Step ==
    (call'.op = "repeat" /\ call'.n <= 0) =>
        /\ call'.id = invalid_timer
        /\ timers' = timers
        /\ ids' = ids
        /\ remove' = remove
        /\ nreg' = nreg

\* C7: every step of repeat with count <= 0 is as above.
C7_RepeatRejectsNonPositive == [][C7_Step]_vars

C7_Witness ==
    /\ call.op = "repeat" /\ call.n <= 0 /\ call.id = invalid_timer
    /\ Stored(timers) # {}
    /\ ids > 0

\* C8: repeat(cb, P, 1) leaves the manager as timeout(cb, P) called in the
\* same state at the same clock leaves it (the same id returned, the same
\* timer stored, the same ids and remove), and the action is invoked as a
\* one-shot action is: once, by the first pass at or after t0 + P.
C8_Step ==
    (call'.op = "repeat" /\ call'.n = 1) =>
        \E handler \in Handlers, dur \in Durations :
            LET r == timeout(Settled, handler, dur, clock, FALSE)
            IN  /\ call'.id = r.ret
                /\ timers' = r.s.timers
                /\ ids' = r.s.ids
                /\ remove' = r.s.remove

C8_OneFiring ==
    \A i \in Ids :
        (Kept(i) /\ hist[i].api = "repeat" /\ hist[i].n = 1 /\ hist[i].cb)
            => OneShotDone(i)

\* C8, as stated: repeat(handler, dur, 1) is timeout(handler, dur), and
\* the action fires exactly once: both of the above.
C8_AsStated == [][C8_Step]_vars /\ []C8_OneFiring

\* C9, as stated: of two tick passes made in a row with the clock reading
\* unchanged, the second invokes no callback.
C9_AsStated == call.streak = 2 => ~call.fired

\* C10: in the example scenario (interval 5 s, timeout 10 s, repeat 5 times
\* 3 s, registered at clock 0, one pass at every whole second up to ScnEnd)
\* the timeout is not invoked by a pass before second 10 and has been
\* invoked once at the end; the repeat has been invoked 5 times when the
\* pass of second 15 has ended, and never more; the interval has been
\* invoked at least 3 times at the end.
C10_Scenario ==
    \A i \in Ids :
        /\ hist[i].api = "timeout" =>
                /\ clock <= TimeoutSeconds => hist[i].fired = 0
                /\ clock > ScnEnd => hist[i].fired = 1
        /\ hist[i].api = "repeat" =>
                /\ hist[i].fired <= RepeatTimes
                /\ clock > RepeatSeconds * RepeatTimes
                        => hist[i].fired = RepeatTimes
        /\ hist[i].api = "interval" =>
                (clock > ScnEnd => hist[i].fired >= 3)

C10_Witness ==
    /\ clock = ScnEnd + 1
    /\ \E i, j, k \in Ids :
        /\ hist[i].api = "interval" /\ hist[i].fired = 3
        /\ hist[j].api = "timeout" /\ hist[j].fired = 1
        /\ hist[k].api = "repeat" /\ hist[k].fired = RepeatTimes

\* C11: a callback that raises affects the scheduling of its action exactly
\* as one that returns: after every invocation, raised or not, the next
\* firing time has advanced by one period (next = t0 + (invocations + 1) *
\* P), and a one-shot action is invoked at most once, whether or not its
\* callback raised.
C11_AsStated ==
    \A i \in Stored(timers) :
        Known(i) =>
            /\ timers[i].next = hist[i].t0 + (hist[i].fired + 1) * hist[i].dur
            /\ hist[i].api = "timeout" => hist[i].fired <= 1

\* C15: every tick pass terminates: for actions registered with any
\* non-negative duration and callbacks that return, no call of
\* manager::update is stuck in a catch-up loop that has no end.
C15_AsStated == pc # "hung"

\* C19: an action whose tick has returned "finished" is never ticked again
\* (in particular never with a countdown of 1), and it is no longer stored
\* when the pass that finished it is over.
C19_AsStated ==
    \A i \in Ids :
        /\ ~hist[i].again
        /\ (pc = "idle" /\ Known(i) /\ hist[i].fin) => timers[i] = NoTimer

\* C18: drift-free schedule.  The next firing time of every stored action
\* is t0 + (f + 1) * P, where t0 is the clock reading of its registration,
\* P its period and f the number of completed runs of its callback.
C18_Next ==
    \A i \in Stored(timers) :
        Known(i) =>
            timers[i].next = hist[i].t0 + (hist[i].fired + 1) * hist[i].dur

\* C18: in every step the next firing time of an action that stays stored
\* does not decrease and grows by exactly P for each run of its callback.
C18_Step ==
    \A i \in Stored(timers) \cap Stored(timers') :
        /\ timers'[i].next >= timers[i].next
        /\ timers'[i].next - timers[i].next
                = (hist'[i].fired - hist[i].fired) * timers[i].interval

\* C18: both of the above: `next` is never set from the clock reading of
\* the pass.
C18_DriftFree == [][C18_Step]_vars /\ []C18_Next

\* An interval of period 1 has run twice and is due for the third time.
C18_Witness ==
    \E i \in Stored(timers) :
        /\ hist[i].api = "interval" /\ hist[i].dur = 1
        /\ hist[i].fired = 2
        /\ timers[i].next = hist[i].t0 + 3
        /\ call.op = "update" /\ call.fired

\* C16: the id a registration returns is not invalid_timer and is the id of
\* no action stored at the time of the call; the actions stored before the
\* call are stored unchanged after it, beside the new one.
C16_Step ==
    (call'.op \in {"timeout", "interval", "repeat"} /\ nreg' > nreg) =>
        /\ call'.id # invalid_timer
        /\ timers[call'.id] = NoTimer
        /\ timers'[call'.id] # NoTimer
        /\ \A j \in Stored(timers) : timers'[j] = timers[j]

\* C16: every registration returns a fresh id, also after the counter
\* `ids` has wrapped around.
C16_FreshIds == [][C16_Step]_vars

\* The counter has passed invalid_timer and 0, the id of a stored action:
\* the last registration has returned 1.
C16_Witness ==
    /\ call.op \in {"timeout", "interval"}
    /\ nreg >= IdMod - 1
    /\ call.id = 1 /\ ids = 2
    /\ timers[0] # NoTimer /\ timers[1] # NoTimer
    /\ hist[0].api = "interval"

\* C17: cancel with the id of an action that has fired and been reaped
\* removes no action, neither one stored at the time of the call nor one
\* registered later: where these are the only calls of cancel, every action
\* a pass erases has finished.
C17_AsStated ==
    \A i \in Ids : hist[i].st = "reaped" => hist[i].fin

\* C14: a callback may call cancel or timeout on the same manager: the
\* call gets the mutex that the thread of the pass owns, and no pass ever
\* waits for its own thread's mutex.
C14_NoSelfDeadlock == pc # "deadlock"

\* A pass has returned in which a callback has registered an action.
C14_Witness ==
    /\ call.op = "update" /\ call.fired /\ call.reg
    /\ pc = "idle" /\ mutex = Unlocked
    /\ \E i \in Ids : hist[i].api = "timeout" /\ hist[i].fired = 0

\* C12: from the return of stop until the next call of start, the worker's
\* thread has ended and has been joined: it is in no tick pass and invokes
\* no callback.
C12_Quiet ==
    thr["main"].quiet =>
        ((\A t \in Loops : thr[t].at = "out") /\ worker = "none")

\* C12: stop, called while no worker runs, returns at once and changes
\* nothing but the flag `stopped`.
C12_StopIdle ==
    (call'.op = "stop" /\ worker = "none") =>
        /\ thr'["main"].at = "out" /\ thr'["main"].quiet
        /\ \A t \in Loops : thr'[t] = thr[t]
        /\ UNCHANGED <<clock, timers, ids, remove, nreg, pc, mutex, worker>>

\* C12: stop waits for the worker: both of the above.
C12_StopWaits == [][C12_StopIdle]_vars /\ []C12_Quiet

\* stop has waited for the worker and has returned; an action that has
\* fired is still stored.
C12_Witness ==
    /\ call.op = "join" /\ thr["main"].quiet /\ stopped
    /\ \E i \in Stored(timers) : hist[i].fired >= 1

\* C13: at most one thread is in a call of timeout, interval, cancel or
\* update past the lock_guard, and that thread owns the mutex.
C13_OneAtATime ==
    /\ \A t, u \in Threads : (InSection(t) /\ InSection(u)) => t = u
    /\ \A t \in Threads : InSection(t) => mutex.owner = t

\* C13: while the tick pass of a thread is between two of its steps, no
\* other thread changes timers, remove or ids.
C13_Step ==
    \A t \in Threads :
        (thr[t].at = "pass" /\ thr'[t] = thr[t]) =>
            UNCHANGED <<timers, remove, ids>>

\* C13: the calls of the manager are serialized: both of the above.
C13_Serialized == [][C13_Step]_vars /\ []C13_OneAtATime

\* The worker's thread waits for the mutex while the caller's tick pass
\* has a timer still to visit, after a first pass of the worker.
C13_Witness ==
    /\ thr["main"].at = "pass" /\ thr["main"].todo # {}
    /\ thr["loop"].at = "want" /\ thr["loop"].e >= 0
    /\ mutex.owner = "main"

\* C20, as stated: the time between the starts of two consecutive passes
\* of update_loop is max(T, e), with T the delay and e the measured
\* duration of the earlier pass.
C20_AsStated ==
    (call.op = "loopstart" /\ call.e >= 0) =>
        call.gap = Max(thr[call.by].delay, call.e)

\* C20, amended: the time between the starts of two consecutive passes is
\* at least max(T, e); and when e >= T the loop does not sleep.
C20_Pacing ==
    /\ (call.op = "loopstart" /\ call.e >= 0) =>
            call.gap >= Max(thr[call.by].delay, call.e)
    /\ (call.op = "measure" /\ call.e >= thr[call.by].delay) =>
            thr[call.by].at = "top"

\* A pass has taken at least T, and the next pass has started at the
\* clock reading at which the first was measured.
C20_Witness ==
    /\ call.op = "loopstart"
    /\ call.e >= thr[call.by].delay
    /\ call.gap = call.e

====
